---- MODULE Spec2Model ----
(***************************************************************************)
(* evstate: event-based finite state machine (src/src/index.js, class FSM). *)
(*                                                                         *)
(* The state is one FSM instance: the transition table, currentState, the  *)
(* error handler and the handler registry.  Handlers are caller closures;  *)
(* the closures used here return, throw, or call back into the engine      *)
(* (on / off / emit), so a running emit is a stack of frames, one per      *)
(* emit call that has passed validation and is iterating its handlers.     *)
(***************************************************************************)
EXTENDS Integers, Sequences, FiniteSets, TLC

VARIABLES allowedTransitions, currentState, errorHandler, transitions,
          stack, last, unwound

vars == <<allowedTransitions, currentState, errorHandler, transitions,
          stack, last, unwound>>

(* ------------------------------ bounds --------------------------------- *)

\* Total number of handler registrations held by the registry.
MaxReg == 2

\* Number of emit calls nested on the call stack.
MaxDepth == 2

(* ----------------------------- constants ------------------------------- *)

\* static ANY = 'anyStateChange'
ANY == "anyStateChange"

\* JavaScript null, as the value of _errorHandler.
Null == "null"

\* A transition list of the table: a JS array, or null for a terminal state.
Arr(items) == [isNull |-> FALSE, items |-> items]
NullList == [isNull |-> TRUE, items |-> <<>>]

\* A name that is no key of any table ('nopenopenope' in the tests).
Unknown == "nopenopenope"

\* The table of the tests and the README, cut to three states; the list of
\* inReview also names a state that is no key (the constructor takes any
\* object), and published is terminal (null).
SmallTable ==
  [s \in {"draft", "inReview", "published"} |->
     CASE s = "draft" -> Arr(<<"inReview">>)
       [] s = "inReview" -> Arr(<<"draft", "published", Unknown>>)
       [] s = "published" -> NullList]

Tables == {SmallTable}

\* State names used as arguments, the wildcard and an unknown name included.
StateArgs == {"draft", "inReview", "published", Unknown}
KeyArgs == StateArgs \cup {ANY}

\* Arguments of isValid: those, and the empty string.
QueryArgs == KeyArgs \cup {""}

\* The publishing table of the tests and the README, whole.
PublishStates ==
  {"draft", "inReview", "changesNeeded", "approved", "scheduled", "published"}

PublishTable ==
  [s \in PublishStates |->
     CASE s = "draft" -> Arr(<<"inReview">>)
       [] s = "inReview" -> Arr(<<"changesNeeded", "approved">>)
       [] s = "changesNeeded" -> Arr(<<"inReview", "approved">>)
       [] s = "approved" -> Arr(<<"draft", "scheduled", "published">>)
       [] s = "scheduled" -> Arr(<<"draft", "published">>)
       [] s = "published" -> NullList]

\* The keys the README registers handlers under; its handlers all return.
PublishKeys == {ANY, "inReview", "changesNeeded", "published"}

\* A table that has the string of FSM.ANY and the empty string among its
\* keys: the constructor takes any object, and ANY is an ordinary string.
AnyKeyTable ==
  [s \in {ANY, "draft", ""} |->
     CASE s = ANY -> Arr(<<"draft">>)
       [] s = "draft" -> Arr(<<ANY>>)
       [] s = "" -> NullList]

\* A table that has neither among its keys.
PlainTable ==
  [s \in {"draft", "inReview"} |->
     CASE s = "draft" -> Arr(<<"inReview">>)
       [] s = "inReview" -> Arr(<<"draft">>)]

KeyTables == {AnyKeyTable, PlainTable}

\* Handler closures (compared by identity) and what each does when called.
Handlers == {"hOk", "hThrow", "hEmit", "hOn", "hOff"}

Body(h) ==
  CASE h = "hOk" -> [kind |-> "return", key |-> "", h |-> ""]
    [] h = "hThrow" -> [kind |-> "throw", key |-> "", h |-> ""]
    [] h = "hEmit" -> [kind |-> "emit", key |-> "draft", h |-> ""]
    [] h = "hOn" -> [kind |-> "on", key |-> "published", h |-> "hOk"]
    [] h = "hOff" -> [kind |-> "off", key |-> "published", h |-> "hOk"]
    [] h = "hSelf" -> [kind |-> "on", key |-> ANY, h |-> "hSelf"]

\* The handlers and keys of the runs that register during a dispatch:
\* hSelf registers itself under the wildcard key each time it is called.
RegHandlers == {"hOk", "hOn", "hSelf"}
RegKeys == {ANY, "published"}

\* Error-handler closures: one that records the message it is given and returns.
ErrorHandlers == {"e1"}

(* ------------------------------ errors --------------------------------- *)

NoError == [name |-> "none", message |-> <<>>]

\* `Invalid state requested: ${desiredState}`
InvalidStateMsg(desiredState) == <<"Invalid state requested: ", desiredState>>

\* `Invalid transition from ${this.currentState} requested: ${desiredState}`
InvalidTransitionMsg(cur, desiredState) ==
  <<"Invalid transition from ", cur, " requested: ", desiredState>>

\* throw new Error(`No error handlers present: ${msg}`)
NoErrorHandlerError(msg) ==
  [name |-> "Error", message |-> <<"No error handlers present: ">> \o msg]

\* throw new Error(`Unable to hook up handler to unknown state ${desiredState}!`)
UnknownStateOnError(desiredState) ==
  [name |-> "Error",
   message |-> <<"Unable to hook up handler to unknown state ", desiredState, "!">>]

\* throw new Error(`Unable to remove handler from unknown state ${desiredState}!`)
UnknownStateOffError(desiredState) ==
  [name |-> "Error",
   message |-> <<"Unable to remove handler from unknown state ", desiredState, "!">>]

\* null.indexOf / undefined.indexOf: the TypeError the runtime raises.
IndexOfTypeError(receiver) ==
  [name |-> "TypeError",
   message |-> <<"Cannot read properties of ", receiver, " (reading 'indexOf')">>]

\* What a throwing handler throws.
HandlerError(h) == [name |-> "HandlerError", message |-> <<h>>]

(* --------------------------- pure functions ---------------------------- *)

\* Array.prototype.indexOf: first 0-based index of x, or -1.
RECURSIVE IndexFrom(_, _, _)
IndexFrom(seq, x, i) ==
  IF i > Len(seq) THEN -1
  ELSE IF seq[i] = x THEN i - 1
  ELSE IndexFrom(seq, x, i + 1)

\* Mutant of indexOf: the search starts at the second element.
indexOf_FromSecond(seq, x) == IndexFrom(seq, x, 2)

\* Mutant of indexOf: only the first element is looked at.
indexOf_FirstOnly(seq, x) == IF seq /= <<>> /\ seq[1] = x THEN 0 ELSE -1

indexOf(seq, x) == IndexFrom(seq, x, 1)

\* this._knownStates = Object.keys(this._allowedTransitions)
knownStates == DOMAIN allowedTransitions

\* Mutant of isValid: the wildcard marker passes for a known state.
isValid_AnyPasses(desiredState) ==
  desiredState = ANY \/ desiredState \in knownStates

\* Mutant of isValid: every name passes for a known state.
isValid_AlwaysTrue(desiredState) == TRUE

\* isValid(desiredState)
isValid(desiredState) == desiredState \in knownStates

\* Mutant of canTransitionTo: the table is not consulted.
canTransitionTo_AlwaysTrue(cur, desiredState) == "true"

\* canTransitionTo(desiredState), evaluated with currentState = cur:
\* "true"/"false", or "TypeError" when the table has no array for cur.
canTransitionTo(cur, desiredState) ==
  IF cur \notin DOMAIN allowedTransitions THEN "TypeError"
  ELSE IF allowedTransitions[cur].isNull THEN "TypeError"
  ELSE IF indexOf(allowedTransitions[cur].items, desiredState) >= 0 THEN "true"
  ELSE "false"

\* The error canTransitionTo raises when it raises.
canTransitionToError(cur) ==
  IF cur \notin DOMAIN allowedTransitions THEN IndexOfTypeError("undefined")
  ELSE IndexOfTypeError("null")

\* Mutant of revisedHandlers: only the first occurrence is left out.
RECURSIVE revisedHandlers_FirstOnly(_, _)
revisedHandlers_FirstOnly(seq, handler) ==
  IF seq = <<>> THEN <<>>
  ELSE IF Head(seq) /= handler
       THEN <<Head(seq)>> \o revisedHandlers_FirstOnly(Tail(seq), handler)
       ELSE Tail(seq)

\* The loop of off: the handlers of seq that are not handler, in order.
RECURSIVE revisedHandlers(_, _)
revisedHandlers(seq, handler) ==
  IF seq = <<>> THEN <<>>
  ELSE IF Head(seq) /= handler
       THEN <<Head(seq)>> \o revisedHandlers(Tail(seq), handler)
       ELSE revisedHandlers(Tail(seq), handler)

\* Number of registrations the registry holds.
RECURSIVE SumLen(_, _)
SumLen(reg, keys) ==
  IF keys = {} THEN 0
  ELSE LET k == CHOOSE x \in keys : TRUE
       IN Len(reg[k]) + SumLen(reg, keys \ {k})

RegSize(reg) == SumLen(reg, DOMAIN reg)

(* ------------------------- registry operations ------------------------- *)

\* Mutant of onRaises: no state name is refused.
onRaises_Never(desiredState) == FALSE

\* on: the guard of lines 44-48.
onRaises(desiredState) == desiredState /= ANY /\ ~isValid(desiredState)

\* Mutant of onRegistry: the handler is put at the front (unshift).
onRegistry_Unshift(reg, desiredState, handler) ==
  LET r1 == IF desiredState \in DOMAIN reg THEN reg
            ELSE reg @@ (desiredState :> <<>>)
  IN [r1 EXCEPT ![desiredState] = <<handler>> \o @]

\* on, lines 50-54: create the sequence if absent, push the handler.
onRegistry(reg, desiredState, handler) ==
  LET r1 == IF desiredState \in DOMAIN reg THEN reg
            ELSE reg @@ (desiredState :> <<>>)
  IN [r1 EXCEPT ![desiredState] = Append(@, handler)]

\* off, lines 73-85: the sequence is replaced by a new array without handler.
offRegistry(reg, desiredState, handler) ==
  LET r1 == IF desiredState \in DOMAIN reg THEN reg
            ELSE reg @@ (desiredState :> <<>>)
  IN [r1 EXCEPT ![desiredState] = revisedHandlers(@, handler)]

\* this._transitions[key]: the array, or nothing to walk when the registry
\* has no such key (undefined, on which for...of raises).
handlersOf(reg, key) == IF key \in DOMAIN reg THEN reg[key] ELSE <<>>

\* for (... of undefined)
NotIterableError ==
  [name |-> "TypeError",
   message |-> <<"this._transitions[desiredState] is not iterable">>]

(* ------------------------------- emit ---------------------------------- *)

\* handleError(msg): raise when no error handler is set, else call it.
handleError(eh, msg) ==
  IF eh = Null
  THEN [kind |-> "raise", error |-> NoErrorHandlerError(msg), msgs |-> <<>>]
  ELSE [kind |-> "false", error |-> NoError,
        msgs |-> <<[to |-> eh, msg |-> msg]>>]

\* The two checks of emit (lines 128-139) made with currentState = cur and
\* _errorHandler = eh: "accept", "false" (reported, emit returns false) or
\* "raise" (an error leaves emit).
emitCheck(cur, eh, desiredState) ==
  IF ~isValid(desiredState)
  THEN handleError(eh, InvalidStateMsg(desiredState))
  ELSE LET c == canTransitionTo(cur, desiredState)
       IN IF c = "TypeError"
          THEN [kind |-> "raise", error |-> canTransitionToError(cur), msgs |-> <<>>]
          ELSE IF c = "false"
          THEN handleError(eh, InvalidTransitionMsg(cur, desiredState))
          ELSE [kind |-> "accept", error |-> NoError, msgs |-> <<>>]

\* An emit call that passed both checks and is about to run its first loop.
\* arr/live/idx are the for...of iterator: the array object it walks (live:
\* it is still the array the registry holds under that key) and how many
\* elements it has consumed.  pre, log, any0, st0, reentrant and moved are
\* history: currentState and the two sequences when the call was made, the
\* handlers this call has invoked, whether one of them called the engine,
\* and whether an emit made by one of them ran to its end.
NewFrame(desiredState) ==
  [target |-> desiredState, pre |-> currentState, phase |-> "any",
   arr |-> transitions[ANY], live |-> TRUE, idx |-> 0, log |-> <<>>,
   any0 |-> transitions[ANY], st0 |-> handlersOf(transitions, desiredState),
   reentrant |-> FALSE, moved |-> FALSE]

\* The registry key whose array the frame is walking.
FrameKey(f) == IF f.phase = "any" THEN ANY ELSE f.target

\* Mutant of NextLoop: the second loop walks the wildcard array again.
NextLoop_AnyAgain(f) ==
  IF f.phase = "any" /\ f.idx = Len(f.arr)
  THEN [f EXCEPT !.phase = "state", !.arr = handlersOf(transitions, ANY),
                 !.live = TRUE, !.idx = 0]
  ELSE f

\* Line 148: when the first loop is exhausted the second loop starts on the
\* array the registry holds for the target at that moment.
NextLoop(f) ==
  IF f.phase = "any" /\ f.idx = Len(f.arr)
  THEN [f EXCEPT !.phase = "state", !.arr = handlersOf(transitions, f.target),
                 !.live = TRUE, !.idx = 0]
  ELSE f

\* Mutant of PushAlias: the loops walk a copy made when they started.
PushAlias_Snapshot(stk, key, handler) == stk

\* push on a registry array is seen by every loop walking that same array.
PushAlias(stk, key, handler) ==
  [i \in DOMAIN stk |->
     IF stk[i].live /\ FrameKey(stk[i]) = key
     THEN [stk[i] EXCEPT !.arr = Append(@, handler)]
     ELSE stk[i]]

\* Mutant of DropAlias: off filters the array in place, under the loops.
DropAlias_InPlace(stk, key) ==
  [i \in DOMAIN stk |->
     IF stk[i].live /\ FrameKey(stk[i]) = key
     THEN [stk[i] EXCEPT !.arr = transitions'[key]]
     ELSE stk[i]]

\* off installs a new array: loops walking the old one keep the old one.
DropAlias(stk, key) ==
  [i \in DOMAIN stk |->
     IF FrameKey(stk[i]) = key THEN [stk[i] EXCEPT !.live = FALSE] ELSE stk[i]]

\* History: a handler of these calls has called back into the engine.
MarkReentrant(stk) == [i \in DOMAIN stk |-> [stk[i] EXCEPT !.reentrant = TRUE]]

\* History: an emit made by a handler of these calls has written currentState.
MarkMoved(stk) == [i \in DOMAIN stk |-> [stk[i] EXCEPT !.moved = TRUE]]

(* ------------------------------ history -------------------------------- *)

\* What the last step did: the engine call that ended in it (or began, for
\* an accepted emit), with the currentState and error handler it started
\* from, what it returned or raised and what it gave the error handler.
\* key is the target of an emit (and, in the runs that ask isValid about
\* the markers, its argument), h the handler a loop called.
Rec(op, key, h, result, raised, msgs) ==
  [op |-> op, key |-> key, h |-> h, depth |-> Len(stack),
   pre |-> currentState, before |-> currentState, ehPre |-> errorHandler,
   result |-> result, raised |-> raised, msgs |-> msgs,
   log |-> <<>>, any0 |-> <<>>, st0 |-> <<>>, reentrant |-> FALSE,
   moved |-> FALSE]

\* The record of an emit call that ran both loops to the end.
RecFinished(f) ==
  [op |-> "emit", key |-> f.target, h |-> "", depth |-> Len(stack) - 1,
   pre |-> f.pre, before |-> currentState, ehPre |-> errorHandler,
   result |-> "this", raised |-> NoError, msgs |-> <<>>,
   log |-> f.log, any0 |-> f.any0, st0 |-> f.st0, reentrant |-> f.reentrant,
   moved |-> f.moved]

\* The record of an emit call that ended in its checks.
RecChecked(desiredState, o) ==
  Rec("emit", desiredState, "",
      IF o.kind = "false" THEN "false" ELSE "raise", o.error, o.msgs)

(* ------------------------------- Init ---------------------------------- *)

\* constructor(transitions, initialState): initialState is not checked.
Init ==
  /\ allowedTransitions \in Tables
  /\ currentState \in DOMAIN allowedTransitions \cup {Unknown}
  /\ errorHandler = Null
  /\ transitions = [k \in {ANY} \cup DOMAIN allowedTransitions |-> <<>>]
  /\ stack = <<>>
  /\ unwound = <<>>
  /\ last = [op |-> "constructor", key |-> "", h |-> "", depth |-> 0,
             pre |-> currentState, before |-> currentState, ehPre |-> Null,
             result |-> "this", raised |-> NoError, msgs |-> <<>>,
             log |-> <<>>, any0 |-> <<>>, st0 |-> <<>>, reentrant |-> FALSE,
             moved |-> FALSE]

(* ------------------------ calls made by the user ----------------------- *)

\* on(desiredState, handler)
on(desiredState, handler) ==
  /\ stack = <<>>
  /\ unwound' = <<>>
  /\ IF onRaises(desiredState)
     THEN /\ last' = Rec("on", "", "", "raise",
                         UnknownStateOnError(desiredState), <<>>)
          /\ UNCHANGED transitions
     ELSE /\ RegSize(transitions) < MaxReg
          /\ transitions' = onRegistry(transitions, desiredState, handler)
          /\ last' = Rec("on", "", "", "this", NoError, <<>>)
  /\ UNCHANGED <<allowedTransitions, currentState, errorHandler, stack>>

\* off(desiredState, handler)
off(desiredState, handler) ==
  /\ stack = <<>>
  /\ unwound' = <<>>
  /\ IF onRaises(desiredState)
     THEN /\ last' = Rec("off", "", "", "raise",
                         UnknownStateOffError(desiredState), <<>>)
          /\ UNCHANGED transitions
     ELSE /\ transitions' = offRegistry(transitions, desiredState, handler)
          /\ last' = Rec("off", "", "", "this", NoError, <<>>)
  /\ UNCHANGED <<allowedTransitions, currentState, errorHandler, stack>>

\* onError(handler)
onError(handler) ==
  /\ stack = <<>>
  /\ unwound' = <<>>
  /\ errorHandler' = handler
  /\ last' = Rec("onError", "", "", "this", NoError, <<>>)
  /\ UNCHANGED <<allowedTransitions, currentState, transitions, stack>>

\* isValid(desiredState), called by the user
isValidCall(desiredState) ==
  /\ stack = <<>>
  /\ unwound' = <<>>
  /\ last' = Rec("isValid", "", "",
                 IF isValid(desiredState) THEN "true" ELSE "false", NoError, <<>>)
  /\ UNCHANGED <<allowedTransitions, currentState, errorHandler, transitions, stack>>

\* isValid(desiredState), called by the user; the record keeps the argument.
isValidAsked(desiredState) ==
  /\ stack = <<>>
  /\ unwound' = <<>>
  /\ last' = Rec("isValid", desiredState, "",
                 IF isValid(desiredState) THEN "true" ELSE "false", NoError, <<>>)
  /\ UNCHANGED <<allowedTransitions, currentState, errorHandler, transitions, stack>>

\* canTransitionTo(desiredState), called by the user
canTransitionToCall(desiredState) ==
  /\ stack = <<>>
  /\ unwound' = <<>>
  /\ LET c == canTransitionTo(currentState, desiredState)
     IN last' = IF c = "TypeError"
                THEN Rec("canTransitionTo", "", "", "raise",
                         canTransitionToError(currentState), <<>>)
                ELSE Rec("canTransitionTo", "", "", c, NoError, <<>>)
  /\ UNCHANGED <<allowedTransitions, currentState, errorHandler, transitions, stack>>

\* Mutant of emit: currentState is written before the handlers are called.
emit_WritesFirst(desiredState) ==
  /\ stack = <<>>
  /\ unwound' = <<>>
  /\ LET o == emitCheck(currentState, errorHandler, desiredState)
     IN IF o.kind = "accept"
        THEN /\ stack' = <<NewFrame(desiredState)>>
             /\ last' = Rec("emitBegin", desiredState, "", "", NoError, <<>>)
             /\ currentState' = desiredState
        ELSE /\ stack' = stack
             /\ last' = RecChecked(desiredState, o)
             /\ currentState' = currentState
  /\ UNCHANGED <<allowedTransitions, errorHandler, transitions>>

\* emit(desiredState, ...args) called by the user: the two checks, and for
\* an accepted target the call is now about to run its handlers.
emit(desiredState) ==
  /\ stack = <<>>
  /\ unwound' = <<>>
  /\ LET o == emitCheck(currentState, errorHandler, desiredState)
     IN IF o.kind = "accept"
        THEN /\ stack' = <<NewFrame(desiredState)>>
             /\ last' = Rec("emitBegin", desiredState, "", "", NoError, <<>>)
        ELSE /\ stack' = stack
             /\ last' = RecChecked(desiredState, o)
  /\ UNCHANGED <<allowedTransitions, currentState, errorHandler, transitions>>

(* --------------------- steps of a running emit ------------------------- *)

\* The innermost running emit, at the loop it is in.
Top == NextLoop(stack[Len(stack)])

\* Mutant of NextHandler: the loop walks its array from the end.
NextHandler_Reversed == Top.arr[Len(Top.arr) - Top.idx]

\* The handler the innermost loop calls next.
NextHandler == Top.arr[Top.idx + 1]

\* The stack once the loop has taken that handler and called it; seen is
\* the currentState the handler reads when it is called.
Called ==
  [stack EXCEPT ![Len(stack)] =
     [Top EXCEPT !.idx = @ + 1,
                 !.log = Append(@, [h |-> NextHandler, via |-> FrameKey(Top),
                                    seen |-> currentState])]]

HasNext == stack /= <<>> /\ Top.idx < Len(Top.arr)

\* anyHandler(...args) / transitionHandler(...args): the handler returns.
InvokeReturn ==
  /\ HasNext
  /\ Body(NextHandler).kind = "return"
  /\ stack' = Called
  /\ unwound' = <<>>
  /\ last' = Rec("handler", "", NextHandler, "return", NoError, <<>>)
  /\ UNCHANGED <<allowedTransitions, currentState, errorHandler, transitions>>

\* Mutant of InvokeThrow: currentState is written although a handler threw.
InvokeThrow_WritesState ==
  /\ HasNext
  /\ Body(NextHandler).kind = "throw"
  /\ stack' = <<>>
  /\ unwound' = Called
  /\ last' = Rec("handler", "", NextHandler, "raise", HandlerError(NextHandler), <<>>)
  /\ currentState' = Top.target
  /\ UNCHANGED <<allowedTransitions, errorHandler, transitions>>

\* The handler throws: catch (err) { throw err } in every emit on the stack,
\* none of which reaches line 153.
InvokeThrow ==
  /\ HasNext
  /\ Body(NextHandler).kind = "throw"
  /\ stack' = <<>>
  /\ unwound' = Called
  /\ last' = Rec("handler", "", NextHandler, "raise", HandlerError(NextHandler), <<>>)
  /\ UNCHANGED <<allowedTransitions, currentState, errorHandler, transitions>>

\* The handler calls on(key, h) on the engine and returns.
InvokeOn ==
  /\ HasNext
  /\ Body(NextHandler).kind = "on"
  /\ LET b == Body(NextHandler)
         stk == MarkReentrant(Called)
     IN IF onRaises(b.key)
        THEN /\ stack' = <<>>
             /\ unwound' = stk
             /\ last' = Rec("on", "", "", "raise", UnknownStateOnError(b.key), <<>>)
             /\ UNCHANGED transitions
        ELSE /\ RegSize(transitions) < MaxReg
             /\ transitions' = onRegistry(transitions, b.key, b.h)
             /\ stack' = PushAlias(stk, b.key, b.h)
             /\ unwound' = <<>>
             /\ last' = Rec("on", "", "", "this", NoError, <<>>)
  /\ UNCHANGED <<allowedTransitions, currentState, errorHandler>>

\* The handler calls off(key, h) on the engine and returns.
InvokeOff ==
  /\ HasNext
  /\ Body(NextHandler).kind = "off"
  /\ LET b == Body(NextHandler)
         stk == MarkReentrant(Called)
     IN IF onRaises(b.key)
        THEN /\ stack' = <<>>
             /\ unwound' = stk
             /\ last' = Rec("off", "", "", "raise", UnknownStateOffError(b.key), <<>>)
             /\ UNCHANGED transitions
        ELSE /\ transitions' = offRegistry(transitions, b.key, b.h)
             /\ stack' = DropAlias(stk, b.key)
             /\ unwound' = <<>>
             /\ last' = Rec("off", "", "", "this", NoError, <<>>)
  /\ UNCHANGED <<allowedTransitions, currentState, errorHandler>>

\* Mutant of InvokeEmit: an emit made while an emit is running is refused
\* as an invalid transition.
InvokeEmit_Refused ==
  /\ HasNext
  /\ Body(NextHandler).kind = "emit"
  /\ LET b == Body(NextHandler)
         stk == MarkReentrant(Called)
         o == handleError(errorHandler, InvalidTransitionMsg(currentState, b.key))
     IN CASE o.kind = "false" ->
               /\ stack' = stk
               /\ unwound' = <<>>
               /\ last' = RecChecked(b.key, o)
          [] o.kind = "raise" ->
               /\ stack' = <<>>
               /\ unwound' = stk
               /\ last' = RecChecked(b.key, o)
  /\ UNCHANGED <<allowedTransitions, currentState, errorHandler, transitions>>

\* The handler calls emit(key) on the engine: the nested call ends in its
\* checks (the handler returns, or the error unwinds every emit), or it is
\* accepted and becomes the innermost running emit.
InvokeEmit ==
  /\ HasNext
  /\ Body(NextHandler).kind = "emit"
  /\ LET b == Body(NextHandler)
         stk == MarkReentrant(Called)
         o == emitCheck(currentState, errorHandler, b.key)
     IN CASE o.kind = "accept" ->
               /\ Len(stack) < MaxDepth
               /\ stack' = Append(stk, NewFrame(b.key))
               /\ unwound' = <<>>
               /\ last' = Rec("emitBegin", b.key, "", "", NoError, <<>>)
          [] o.kind = "false" ->
               /\ stack' = stk
               /\ unwound' = <<>>
               /\ last' = RecChecked(b.key, o)
          [] o.kind = "raise" ->
               /\ stack' = <<>>
               /\ unwound' = stk
               /\ last' = RecChecked(b.key, o)
  /\ UNCHANGED <<allowedTransitions, currentState, errorHandler, transitions>>

\* Mutant of finishState: the state the call started from is written back.
finishState_Pre(f) == f.pre

\* this.currentState = desiredState (line 153)
finishState(f) == f.target

\* Both loops of the innermost emit are done: line 153 writes currentState
\* and the call returns this (to the user, or to the handler that made it,
\* which then returns).  A target without a registry entry has no second
\* loop: for...of raises on undefined, and the record of that call, like
\* the record of a call that returns, has the depth the call was made at
\* and the currentState it started from.
Finish ==
  /\ stack /= <<>>
  /\ Top.idx = Len(Top.arr)
  /\ IF Top.target \in DOMAIN transitions
     THEN /\ currentState' = finishState(Top)
          /\ stack' = MarkMoved(SubSeq(stack, 1, Len(stack) - 1))
          /\ unwound' = <<>>
          /\ last' = RecFinished(Top)
     ELSE /\ currentState' = currentState
          /\ stack' = <<>>
          /\ unwound' = stack
          /\ last' = [Rec("emit", Top.target, "", "raise", NotIterableError, <<>>)
                         EXCEPT !.depth = Len(stack) - 1, !.pre = Top.pre]
  /\ UNCHANGED <<allowedTransitions, errorHandler, transitions>>

(* ------------------------------- Next ---------------------------------- *)

Next ==
  \/ \E k \in KeyArgs, h \in Handlers : on(k, h)
  \/ \E k \in KeyArgs, h \in Handlers : off(k, h)
  \/ \E e \in ErrorHandlers : onError(e)
  \/ \E s \in QueryArgs : isValidCall(s)
  \/ \E s \in KeyArgs : canTransitionToCall(s)
  \/ \E s \in KeyArgs : emit(s)
  \/ InvokeReturn
  \/ InvokeThrow
  \/ InvokeOn
  \/ InvokeOff
  \/ InvokeEmit
  \/ Finish

Spec == Init /\ [][Next]_vars

\* new FSM(table, initialState) for a table with and a table without the
\* markers among its keys, then the same calls.
InitKeys ==
  /\ allowedTransitions \in KeyTables
  /\ currentState \in DOMAIN allowedTransitions
  /\ errorHandler = Null
  /\ transitions = [k \in {ANY} \cup DOMAIN allowedTransitions |-> <<>>]
  /\ stack = <<>>
  /\ unwound = <<>>
  /\ last = [op |-> "constructor", key |-> "", h |-> "", depth |-> 0,
             pre |-> currentState, before |-> currentState, ehPre |-> Null,
             result |-> "this", raised |-> NoError, msgs |-> <<>>,
             log |-> <<>>, any0 |-> <<>>, st0 |-> <<>>, reentrant |-> FALSE,
             moved |-> FALSE]

NextKeys ==
  \/ \E k \in KeyArgs, h \in Handlers : on(k, h)
  \/ \E k \in KeyArgs, h \in Handlers : off(k, h)
  \/ \E e \in ErrorHandlers : onError(e)
  \/ \E s \in QueryArgs : isValidAsked(s)
  \/ \E s \in KeyArgs : canTransitionToCall(s)
  \/ \E s \in KeyArgs : emit(s)
  \/ InvokeReturn
  \/ InvokeThrow
  \/ InvokeOn
  \/ InvokeOff
  \/ InvokeEmit
  \/ Finish

SpecKeys == InitKeys /\ [][NextKeys]_vars

\* Handlers that register handlers when called, emits, and nothing else.
NextReg ==
  \/ \E k \in RegKeys, h \in RegHandlers : on(k, h)
  \/ \E s \in StateArgs : emit(s)
  \/ InvokeReturn
  \/ InvokeOn
  \/ Finish

SpecReg == Init /\ [][NextReg]_vars

\* new FSM(PublishTable, 'draft')
InitPublish ==
  /\ allowedTransitions = PublishTable
  /\ currentState = "draft"
  /\ errorHandler = Null
  /\ transitions = [k \in {ANY} \cup DOMAIN allowedTransitions |-> <<>>]
  /\ stack = <<>>
  /\ unwound = <<>>
  /\ last = [op |-> "constructor", key |-> "", h |-> "", depth |-> 0,
             pre |-> currentState, before |-> currentState, ehPre |-> Null,
             result |-> "this", raised |-> NoError, msgs |-> <<>>,
             log |-> <<>>, any0 |-> <<>>, st0 |-> <<>>, reentrant |-> FALSE,
             moved |-> FALSE]

\* Where the script of the README stands: no emit made yet; the emit of t
\* made in state s has returned the engine; it has returned false.
AtSetup == stack = <<>> /\ last.op \in {"constructor", "on", "onError"}

After(s, t) ==
  /\ stack = <<>>
  /\ last.op = "emit" /\ last.result = "this"
  /\ last.pre = s /\ last.key = t

Refused(s, t) ==
  /\ stack = <<>>
  /\ last.op = "emit" /\ last.result = "false"
  /\ last.pre = s /\ last.key = t

\* The script of the README and of the integration test: handlers that
\* return are registered and the error handler is set, then inReview,
\* changesNeeded, inReview, approved, inReview and published are emitted,
\* each once the call before it has returned.
NextPublish ==
  \/ AtSetup /\ \E k \in PublishKeys : on(k, "hOk")
  \/ AtSetup /\ \E e \in ErrorHandlers : onError(e)
  \/ AtSetup /\ errorHandler /= Null /\ emit("inReview")
  \/ After("draft", "inReview") /\ emit("changesNeeded")
  \/ After("inReview", "changesNeeded") /\ emit("inReview")
  \/ After("changesNeeded", "inReview") /\ emit("approved")
  \/ After("inReview", "approved") /\ emit("inReview")
  \/ Refused("approved", "inReview") /\ emit("published")
  \/ InvokeReturn
  \/ Finish

SpecPublish == InitPublish /\ [][NextPublish]_vars

(* ====================== properties of the engine ======================= *)

\* t is a key of the table.
Known(t) == t \in DOMAIN allowedTransitions

\* The table declares the transition s -> t.
Declared(s, t) ==
  /\ s \in DOMAIN allowedTransitions
  /\ ~allowedTransitions[s].isNull
  /\ \E i \in 1..Len(allowedTransitions[s].items) : allowedTransitions[s].items[i] = t

\* An emit of t with currentState = s is to be rejected.
Rejected(s, t) == ~Known(t) \/ ~Declared(s, t)

\* The message a rejected emit of t from s is to report.
ExpectedMsg(s, t) ==
  IF ~Known(t) THEN <<"Invalid state requested: ", t>>
  ELSE <<"Invalid transition from ", s, " requested: ", t>>

\* The last step ended an emit call in its checks or at its last line.
EmitEnded == last.op = "emit"

\* The last step ended an emit call that ran all its handlers.
EmitReturnedThis == last.op = "emit" /\ last.result = "this"

IsPrefix(a, b) == Len(a) <= Len(b) /\ a = SubSeq(b, 1, Len(a))

Count(h, seq) == Cardinality({i \in 1..Len(seq) : seq[i] = h})

\* The handlers of a log, in the order they were called.
Called_h(log) == [i \in 1..Len(log) |-> log[i].h]

\* The calls a dispatch made from its wildcard loop, and from its second loop.
AnyPart(log) == Called_h(SelectSeq(log, LAMBDA e : e.via = ANY))
StatePart(log) == Called_h(SelectSeq(log, LAMBDA e : e.via /= ANY))

\* Every emit call that is running, was just unwound, or just returned this.
Dispatches ==
  {stack[i] : i \in 1..Len(stack)} \cup {unwound[i] : i \in 1..Len(unwound)}
  \cup (IF EmitReturnedThis
        THEN {[target |-> last.key, pre |-> last.pre, log |-> last.log,
               any0 |-> last.any0, st0 |-> last.st0,
               reentrant |-> last.reentrant, moved |-> last.moved]}
        ELSE {})

(* ------------------------------- C1 ------------------------------------ *)

\* C1 as stated: in every reachable state currentState is a key of the
\* transition table.
C1_CurrentStateKnown == Known(currentState)

\* C1 amended: no step takes currentState from a key of the table to a
\* value that is not one; so currentState is always a key when the initial
\* state given to the constructor is.
C1_KnownStaysKnown ==
  [][Known(currentState) => currentState' \in DOMAIN allowedTransitions']_vars

\* An emit has moved the engine from one key of the table to another.
C1_Witness ==
  /\ EmitReturnedThis
  /\ Known(last.pre) /\ Known(currentState) /\ currentState /= last.pre

(* ------------------------------- C2 ------------------------------------ *)

\* C2 as stated: every write of currentState by emit goes from the value s
\* held immediately before the write to a target in the outgoing list of s.
C2_DeclaredFromValueBefore ==
  EmitReturnedThis => Declared(last.before, last.key)

\* C2 amended: every write of currentState by emit sets it to the target,
\* and the target is in the outgoing list of the value s that currentState
\* held when that emit was called; s is the value immediately before the
\* write unless a handler of the call itself completed an emit.
C2_DeclaredFromCallState ==
  EmitReturnedThis =>
    /\ Declared(last.pre, last.key)
    /\ currentState = last.key
    /\ (~last.moved => last.before = last.pre)

\* An emit returned after one of its handlers had moved currentState.
C2_Witness ==
  /\ EmitReturnedThis
  /\ last.moved
  /\ last.before /= last.pre
  /\ currentState = last.key

(* ------------------------------- C3 ------------------------------------ *)

\* C3: a rejected emit made while an error handler is set returns false and
\* leaves currentState unchanged, from every currentState.
C3_RejectedReturnsFalse ==
  (EmitEnded /\ last.ehPre /= Null /\ Rejected(last.pre, last.key)) =>
    (last.result = "false" /\ currentState = last.pre)

(* ------------------------------- C4 ------------------------------------ *)

\* C4: an emit whose target is a key in the outgoing list of currentState
\* is never ended by the engine itself; when its handlers have all returned
\* it has set currentState to the target and returns the engine.
C4_AcceptedSetsTarget ==
  (EmitEnded /\ Known(last.key) /\ Declared(last.pre, last.key)) =>
    /\ last.result = "this"
    /\ last.raised = NoError
    /\ last.msgs = <<>>
    /\ currentState = last.key

\* An accepted emit ran a handler and returned.
C4_Witness ==
  /\ EmitReturnedThis
  /\ Declared(last.pre, last.key)
  /\ last.log /= <<>>
  /\ currentState = last.key
  /\ currentState /= last.pre

(* ------------------------------- C5 ------------------------------------ *)

\* C5: with an error handler set, a rejected emit raises nothing and calls
\* the error handler exactly once, with the invalid-state message when the
\* target is no key and the invalid-transition message otherwise.
C5_RejectedReportsOnce ==
  (EmitEnded /\ last.ehPre /= Null /\ Rejected(last.pre, last.key)) =>
    /\ last.raised = NoError
    /\ last.msgs = <<[to |-> last.ehPre, msg |-> ExpectedMsg(last.pre, last.key)]>>

(* ------------------------------- C6 ------------------------------------ *)

\* C6: with no error handler set, every rejected emit raises the
\* no-error-handler error carrying the message the handler would have been
\* given, calls nothing and leaves currentState unchanged.
C6_RejectedRaisesNoHandler ==
  (EmitEnded /\ last.ehPre = Null /\ Rejected(last.pre, last.key)) =>
    /\ last.result = "raise"
    /\ last.raised = [name |-> "Error",
                      message |-> <<"No error handlers present: ">>
                                    \o ExpectedMsg(last.pre, last.key)]
    /\ last.msgs = <<>>
    /\ last.log = <<>>
    /\ currentState = last.pre

(* ------------------------------- C7 ------------------------------------ *)

\* No call from the wildcard loop comes after a call from the second loop.
WildcardFirst(log) ==
  \A i, j \in 1..Len(log) : (i < j /\ log[i].via /= ANY) => log[j].via /= ANY

\* C7: within one emit every wildcard handler is called before any handler
\* of the target, and each loop calls its handlers in registration order:
\* the wildcard calls and the wildcard sequence the call started with are
\* one a prefix of the other, all of that sequence has been called once the
\* second loop has called anything, and when no handler has changed the
\* registry the calls of each loop are a prefix of the sequence registered.
C7_WildcardFirstInOrder ==
  \A d \in Dispatches :
    LET a == AnyPart(d.log)
        s == StatePart(d.log)
    IN /\ WildcardFirst(d.log)
       /\ (IsPrefix(a, d.any0) \/ IsPrefix(d.any0, a))
       /\ (s /= <<>> => IsPrefix(d.any0, a))
       /\ (~d.reentrant => (IsPrefix(a, d.any0) /\ IsPrefix(s, d.st0)))

\* An emit called one wildcard handler and then one handler of its target.
C7_Witness ==
  /\ EmitReturnedThis
  /\ Len(last.log) = 2
  /\ last.log[1].via = ANY /\ last.log[2].via = last.key
  /\ last.log[1].h /= last.log[2].h
  /\ last.any0 = <<last.log[1].h>>
  /\ last.st0 = <<last.log[2].h>>

(* ------------------------------- C8 ------------------------------------ *)

\* No emit that is to be rejected ever runs a loop, and one that ended in
\* its checks has called no handler.
RejectedCallsNothing ==
  /\ \A d \in Dispatches : ~Rejected(d.pre, d.target)
  /\ (EmitEnded /\ Rejected(last.pre, last.key)) => last.log = <<>>

\* C8 as stated: an accepted emit whose handlers all return calls every
\* handler as often as it occurs in the wildcard sequence plus the sequence
\* of the target at the start of the call; a rejected emit calls none.
C8_CalledAsRegisteredAtStart ==
  /\ EmitReturnedThis =>
       \A h \in Handlers :
         Count(h, Called_h(last.log)) = Count(h, last.any0) + Count(h, last.st0)
  /\ RejectedCallsNothing

\* C8 amended: the same, for an emit during which no handler calls on, off
\* or emit on the engine.
C8_CalledAsRegisteredNoReentry ==
  /\ (EmitReturnedThis /\ ~last.reentrant) =>
       \A h \in Handlers :
         Count(h, Called_h(last.log)) = Count(h, last.any0) + Count(h, last.st0)
  /\ RejectedCallsNothing

\* A handler registered twice under the target was called twice.
C8_Witness ==
  /\ EmitReturnedThis
  /\ ~last.reentrant
  /\ last.st0 = <<"hOk", "hOk">>
  /\ Count("hOk", Called_h(last.log)) = 2

(* ------------------------------- C9 ------------------------------------ *)

\* C9 as stated: when a handler raises, the error leaves emit as raised, the
\* error handler is not called and currentState is what it was before the
\* dispatch.
C9_RaiseKeepsStateOfCall ==
  unwound /= <<>> =>
    /\ last.result = "raise"
    /\ last.msgs = <<>>
    /\ \A i \in 1..Len(unwound) : currentState = unwound[i].pre

\* C9 amended: when a handler raises, the error leaves emit as raised, the
\* error handler is not called for it and no emit on the stack writes
\* currentState: it is what it was before the dispatch unless a handler run
\* earlier in that dispatch itself completed an emit, which is not undone.
C9_RaiseWritesNothing ==
  unwound /= <<>> =>
    /\ last.result = "raise"
    /\ last.raised /= NoError
    /\ (last.op = "handler" => last.raised = [name |-> "HandlerError",
                                              message |-> <<last.h>>])
    /\ last.msgs = <<>>
    /\ currentState = last.before
    /\ \A i \in 1..Len(unwound) :
         /\ unwound[i].log /= <<>>
         /\ (~unwound[i].moved => currentState = unwound[i].pre)

\* The second handler of an emit threw after the first had returned.
C9_Witness ==
  /\ Len(unwound) = 1
  /\ last.op = "handler" /\ last.result = "raise"
  /\ Len(unwound[1].log) = 2
  /\ unwound[1].log[2].h = last.h
  /\ ~unwound[1].moved
  /\ currentState = unwound[1].pre
  /\ currentState /= unwound[1].target

(* ------------------------------- C10 ----------------------------------- *)

\* currentState has no transition list: it is terminal, or no key at all.
NoList(s) == IF Known(s) THEN allowedTransitions[s].isNull ELSE TRUE

\* C10: canTransitionTo returns false and raises nothing when currentState
\* has no transition list, and an emit of a known state from a terminal
\* state is reported to the error handler as an invalid transition.
C10_NoListYieldsFalse ==
  /\ (last.op = "canTransitionTo" /\ NoList(last.pre)) =>
       (last.result = "false" /\ last.raised = NoError)
  /\ (EmitEnded /\ Known(last.key) /\ Known(last.pre) /\ NoList(last.pre)
        /\ last.ehPre /= Null) =>
       last.msgs = <<[to |-> last.ehPre,
                      msg |-> <<"Invalid transition from ", last.pre,
                                " requested: ", last.key>>]>>

(* ------------------------------- C11 ----------------------------------- *)

\* currentState has a transition list (an array) in the table.
HasList(s) == Known(s) /\ ~allowedTransitions[s].isNull

\* C11: whenever currentState has a transition list L, canTransitionTo(t)
\* returns true if t is in L and false if it is not, for known and unknown
\* t alike, and raises nothing; the answer is a function of the table and
\* currentState alone, whatever the registry and the error handler hold.
C11_TrueIffInList ==
  [][\A t \in KeyArgs :
       (last'.op = "canTransitionTo" /\ HasList(currentState)
          /\ canTransitionToCall(t)) =>
         /\ last'.result = IF Declared(currentState, t) THEN "true" ELSE "false"
         /\ last'.raised = NoError]_vars

\* canTransitionTo has answered true while handlers and an error handler
\* were registered.
C11_Witness ==
  /\ last.op = "canTransitionTo" /\ last.result = "true"
  /\ HasList(currentState)
  /\ RegSize(transitions) > 0
  /\ errorHandler /= Null

(* ------------------------------- C12 ----------------------------------- *)

\* The keys of the table, as its literal writes them.
KeysWritten ==
  IF allowedTransitions = AnyKeyTable THEN {ANY, "draft", ""}
  ELSE IF allowedTransitions = PlainTable THEN {"draft", "inReview"}
  ELSE DOMAIN allowedTransitions

\* The empty string and the wildcard marker.
Markers == {"", ANY}

\* C12 as stated: isValid(s) is true exactly for the keys of the table, is
\* false for the empty string and for the wildcard marker, and the set of
\* keys never changes.
C12_FalseForMarkers ==
  [][/\ DOMAIN allowedTransitions' = DOMAIN allowedTransitions
     /\ last'.op = "isValid" =>
          /\ last'.result = IF last'.key \in KeysWritten THEN "true" ELSE "false"
          /\ last'.key \in Markers => last'.result = "false"]_vars

\* C12 amended: isValid(s) is true exactly for the keys of the table, at
\* any point of any sequence of calls, raises nothing and changes nothing,
\* and the table and its set of keys never change; it is false for the
\* empty string and for the wildcard marker unless the table has that
\* string as a key.
C12_TrueIffKey ==
  [][/\ allowedTransitions' = allowedTransitions
     /\ last'.op = "isValid" =>
          /\ last'.key \in QueryArgs
          /\ last'.result = IF last'.key \in KeysWritten THEN "true" ELSE "false"
          /\ (last'.key \in Markers /\ last'.key \notin KeysWritten) =>
                last'.result = "false"
          /\ (last'.key \in Markers /\ last'.key \in KeysWritten) =>
                last'.result = "true"
          /\ last'.raised = NoError
          /\ UNCHANGED <<currentState, errorHandler, transitions, stack>>]_vars

\* isValid has answered false for the wildcard marker, on a table that has
\* neither marker as a key, after handlers and an error handler were
\* registered.
C12_Witness ==
  /\ last.op = "isValid" /\ last.key = ANY /\ last.result = "false"
  /\ Markers \cap DOMAIN allowedTransitions = {}
  /\ RegSize(transitions) > 0
  /\ errorHandler /= Null

(* ------------------------------- C13 ----------------------------------- *)

\* The step is the call on(k, h), made by the user or by a handler.
IsOn(k, h) ==
  IF stack = <<>> THEN on(k, h)
  ELSE InvokeOn /\ Body(NextHandler).key = k /\ Body(NextHandler).h = h

\* k is a key on and off accept: the wildcard key or a key of the table.
LegalKey(k) == k = ANY \/ Known(k)

\* The keys whose sequence a step has changed or created.
ChangedKeys ==
  {j \in DOMAIN transitions' :
     IF j \in DOMAIN transitions THEN transitions'[j] /= transitions[j] ELSE TRUE}

\* C13: on and off called with a state that is neither the wildcard key nor
\* a key of the table raise the unknown-state error (an Error with the
\* message of lines 46 and 69) and leave the registry, currentState and the
\* error handler unchanged; called with the wildcard key or a key of the
\* table they do not raise.  The guard of on and off refuses exactly the
\* states that are neither; every error on or off raises is that error,
\* names such a state and comes with nothing changed; and an on or off that
\* returns has touched the sequence of a legal key only.
C13_UnknownStateRaises ==
  /\ [](\A k \in KeyArgs : onRaises(k) <=> ~LegalKey(k))
  /\ [][last'.op \in {"on", "off"} =>
          /\ last'.result \in {"this", "raise"}
          /\ last'.result = "raise" =>
                /\ \E k \in KeyArgs :
                      /\ ~LegalKey(k)
                      /\ last'.raised =
                           [name |-> "Error",
                            message |->
                              <<IF last'.op = "on"
                                THEN "Unable to hook up handler to unknown state "
                                ELSE "Unable to remove handler from unknown state ",
                                k, "!">>]
                /\ UNCHANGED <<transitions, currentState, errorHandler>>
          /\ last'.result = "this" =>
                /\ last'.raised = NoError
                /\ DOMAIN transitions' = DOMAIN transitions
                /\ \A j \in ChangedKeys : LegalKey(j)
                /\ last'.op = "on" => ChangedKeys /= {}]_vars

\* on was refused for an unknown state while the engine held handlers and
\* an error handler.
C13_Witness ==
  /\ last.op = "on" /\ last.result = "raise"
  /\ last.raised.name = "Error"
  /\ RegSize(transitions) > 0
  /\ errorHandler /= Null

(* ------------------------------- C14 ----------------------------------- *)

\* What off(k, h) makes of the registry reg: the sequence of k without any
\* occurrence of h and with its other handlers in their order, every other
\* sequence as it was, nothing changed when h is not in the sequence, and
\* nothing changed by a second off(k, h).
OffRemovesEvery(reg, k, h) ==
  LET r == offRegistry(reg, k, h)
  IN /\ DOMAIN r = DOMAIN reg
     /\ r[k] = SelectSeq(reg[k], LAMBDA x : x /= h)
     /\ \A i \in 1..Len(r[k]) : r[k][i] /= h
     /\ \A j \in DOMAIN reg \ {k} : r[j] = reg[j]
     /\ (Count(h, reg[k]) = 0 => r = reg)
     /\ offRegistry(r, k, h) = r

\* C14: off(k, h) with a legal key k leaves the sequence of k without any
\* occurrence of h and with its other handlers in their order, leaves every
\* other sequence, currentState and the error handler as they were, and
\* raises nothing; when h is not in the sequence nothing changes, so a
\* second off(k, h) changes nothing.  This holds of the registry of every
\* reachable state, and every off that returns has made the registry so.
C14_OffRemovesEvery ==
  /\ [](\A k \in {x \in KeyArgs : LegalKey(x)}, h \in Handlers :
          OffRemovesEvery(transitions, k, h))
  /\ [][(last'.op = "off" /\ last'.result = "this") =>
          /\ \E k \in {x \in KeyArgs : LegalKey(x)}, h \in Handlers :
                transitions' = offRegistry(transitions, k, h)
          /\ last'.raised = NoError
          /\ UNCHANGED <<currentState, errorHandler>>]_vars

\* A wildcard handler of a running emit has called off and removed the one
\* handler the target had when the emit was called; the wildcard sequence
\* is as it was.
C14_Witness ==
  /\ Len(stack) = 1
  /\ last.op = "off" /\ last.result = "this"
  /\ stack[1].target = Body("hOff").key
  /\ stack[1].st0 = <<Body("hOff").h>>
  /\ transitions[stack[1].target] = <<>>
  /\ transitions[ANY] = <<"hOff">>
  /\ stack[1].any0 = transitions[ANY]

(* ------------------------------- C15 ----------------------------------- *)

\* C15: currentState changes only in the step that ends an accepted emit;
\* on, off, onError, isValid and canTransitionTo leave it as it is; on
\* changes nothing but the sequence of its key, to which it appends the
\* handler; isValid and canTransitionTo change nothing at all.
C15_OnlyEmitWritesState ==
  [][/\ currentState' /= currentState =>
          (last'.op = "emit" /\ last'.result = "this"
             /\ currentState' = last'.key)
     /\ last'.op \in {"on", "off", "onError", "isValid", "canTransitionTo"} =>
          currentState' = currentState
     /\ last'.op \in {"isValid", "canTransitionTo"} =>
          UNCHANGED <<allowedTransitions, currentState, errorHandler,
                      transitions, stack>>
     /\ (last'.op = "on" /\ last'.result = "this") =>
          /\ \E k \in DOMAIN transitions, h \in Handlers :
                /\ transitions' = [transitions EXCEPT ![k] = Append(@, h)]
                /\ IsOn(k, h)
          /\ UNCHANGED <<allowedTransitions, currentState, errorHandler>>]_vars

\* on has appended a second, different handler to a sequence and left
\* currentState as it was.
C15_Witness ==
  /\ last.op = "on" /\ last.result = "this"
  /\ currentState = last.pre
  /\ \E k \in DOMAIN transitions :
       /\ Len(transitions[k]) = 2
       /\ transitions[k][1] /= transitions[k][2]

(* ------------------------------- C16 ----------------------------------- *)

\* Every emit of t made with currentState = s that has ended returned the
\* engine and left currentState = t.
Moves(s, t) ==
  (EmitEnded /\ last.pre = s /\ last.key = t) =>
    (last.result = "this" /\ currentState = t)

\* C16: on the publishing table the emits of the README script do what the
\* scenario says, each made once the one before it has returned: inReview is
\* accepted from draft, changesNeeded from inReview, inReview from
\* changesNeeded and approved from inReview, each setting currentState to
\* its target; inReview emitted from approved with an error handler set
\* returns false, keeps approved and gives the handler "Invalid transition
\* from approved requested: inReview", once; published is accepted from
\* approved and sets currentState to published.
C16_PublishingScenario ==
  /\ Moves("draft", "inReview")
  /\ Moves("inReview", "changesNeeded")
  /\ Moves("changesNeeded", "inReview")
  /\ Moves("inReview", "approved")
  /\ (EmitEnded /\ last.pre = "approved" /\ last.key = "inReview"
        /\ last.ehPre /= Null) =>
       /\ last.result = "false"
       /\ last.raised = NoError
       /\ currentState = "approved"
       /\ last.msgs = <<[to |-> last.ehPre,
                         msg |-> <<"Invalid transition from ", "approved",
                                   " requested: ", "inReview">>]>>
  /\ Moves("approved", "published")

\* The script has run to its end: with the error handler set, its last
\* emit, of published from approved, has called the wildcard handler and
\* the handler of published, and currentState is published.
C16_Witness ==
  /\ EmitReturnedThis
  /\ last.pre = "approved" /\ last.key = "published"
  /\ currentState = "published"
  /\ errorHandler /= Null
  /\ Len(last.log) = 2
  /\ last.log[1].via = ANY /\ last.log[2].via = "published"

(* ------------------------------- C17 ----------------------------------- *)

\* C17 as stated: every handler an emit made with currentState = s calls,
\* wildcard or state-specific, reads currentState = s.
C17_HandlersSeeSource ==
  \A d \in Dispatches :
    \A i \in 1..Len(d.log) : d.log[i].seen = d.pre

\* C17 amended: currentState is written only after the last handler of an
\* accepted emit has returned: every handler an emit made with
\* currentState = s calls reads currentState = s, and while the emit runs
\* currentState is s, unless a handler the emit called before has itself
\* completed an emit; the handlers called after that one read what the
\* inner emit wrote.
C17_HandlersSeeCallState ==
  /\ \A d \in Dispatches :
       \A i \in 1..Len(d.log) :
         \/ d.log[i].seen = d.pre
         \/ /\ d.moved
            /\ \E j \in 1..(i - 1) : Body(d.log[j].h).kind = "emit"
  /\ \A n \in 1..Len(stack) : ~stack[n].moved => currentState = stack[n].pre

\* An emit has returned after calling a wildcard handler and then a handler
\* of its target; both read the state the emit was called in, which is not
\* the target currentState now holds.
C17_Witness ==
  /\ EmitReturnedThis
  /\ Len(last.log) = 2
  /\ last.log[1].via = ANY /\ last.log[2].via = last.key
  /\ \A i \in 1..2 : last.log[i].seen = last.pre
  /\ last.pre /= last.key
  /\ currentState = last.key

(* ------------------------------- C18 ----------------------------------- *)

\* The last step ended an emit call that a handler of a running emit made.
NestedEmitEnded == EmitEnded /\ last.depth >= 1

\* C18: an emit a handler makes while an emit is running is checked like
\* any other, against the currentState of that moment: it is refused only
\* when its target is unknown or not in the list of that state, and when it
\* runs to its end it sets currentState to its target; the outer emit, when
\* it completes, overwrites currentState with its own target, whether or
\* not the table has a transition from the inner target to it.
C18_InnerThenOuterWrites ==
  /\ (NestedEmitEnded /\ last.result /= "this") => Rejected(last.pre, last.key)
  /\ (NestedEmitEnded /\ last.result = "this") =>
       /\ Declared(last.pre, last.key)
       /\ currentState = last.key
       /\ \A n \in 1..Len(stack) : stack[n].moved
  /\ (EmitReturnedThis /\ last.moved) => currentState = last.key

\* An outer emit has completed after a handler of it had completed an
\* emit: currentState is the outer target, to which the table has no
\* transition from the inner target it overwrote.
C18_Witness ==
  /\ EmitReturnedThis
  /\ last.depth = 0
  /\ last.moved
  /\ last.before /= last.pre
  /\ Declared(last.pre, last.before)
  /\ ~Declared(last.before, last.key)
  /\ currentState = last.key

(* ------------------------------- C19 ----------------------------------- *)

\* Entry e of the log of an emit of target t is a call of a handler that
\* registers a handler under the key of the loop that called it, or, called
\* by the wildcard loop, under t.
RegistersAhead(e, t) ==
  /\ Body(e.h).kind = "on"
  /\ Body(e.h).key = e.via \/ (e.via = ANY /\ Body(e.h).key = t)

\* Entry e is a call of a handler that registers itself under the key of
\* the loop that called it.
RegistersItself(e) ==
  /\ Body(e.h).kind = "on"
  /\ Body(e.h).h = e.h
  /\ Body(e.h).key = e.via

\* C19: a handler that a running handler registers under the key of the
\* loop that is running, or under the target while the wildcard loop is
\* still running, is called in that same emit: when the registering
\* handler returns, the new handler is the last element of a sequence the
\* emit has still to walk to its end, and every emit that returns has
\* called it after the handler that registered it.  After each call of a
\* handler that registers itself under the key of the loop that calls it
\* the loop has a further call of it still to make, and no emit that has
\* called such a handler returns.
C19_RegisteredDuringEmitIsCalled ==
  /\ (stack /= <<>> /\ last.op = "on" /\ last.result = "this") =>
       LET f == stack[Len(stack)]
           e == f.log[Len(f.log)]
       IN /\ (f.live /\ Body(e.h).key = e.via) =>
               /\ f.idx < Len(f.arr)
               /\ f.arr[Len(f.arr)] = Body(e.h).h
               /\ f.arr = transitions[e.via]
          /\ (e.via = ANY /\ Body(e.h).key = f.target) =>
               /\ transitions[f.target] /= <<>>
               /\ transitions[f.target][Len(transitions[f.target])] = Body(e.h).h
          /\ RegistersItself(e) =>
               /\ HasNext
               /\ \E n \in (Top.idx + 1)..Len(Top.arr) : Top.arr[n] = e.h
  /\ EmitReturnedThis =>
       \A i \in 1..Len(last.log) :
         /\ RegistersAhead(last.log[i], last.key) =>
              \E j \in (i + 1)..Len(last.log) :
                /\ last.log[j].h = Body(last.log[i].h).h
                /\ last.log[j].via = Body(last.log[i].h).key
         /\ ~RegistersItself(last.log[i])

\* An emit has returned whose target had one handler when it was called;
\* that handler registered another under the target while the loop of the
\* target was running, and the loop called it next.
C19_Witness ==
  /\ EmitReturnedThis
  /\ last.st0 = <<"hOn">>
  /\ last.key = Body("hOn").key
  /\ Len(last.log) = 2
  /\ last.log[1].h = "hOn" /\ last.log[1].via = last.key
  /\ last.log[2].h = Body("hOn").h /\ last.log[2].via = last.key

(* ------------------------------- C20 ----------------------------------- *)

\* The handlers of an emit all returned, some after calling off.
OffOnly(log) ==
  \A i \in 1..Len(log) : Body(log[i].h).kind \in {"return", "off"}

\* The handlers that the wildcard handlers of an emit of t removed from the
\* sequence of t.
Suppressed(log, t) ==
  {Body(log[i].h).h :
     i \in {j \in 1..Len(log) :
              /\ log[j].via = ANY
              /\ Body(log[j].h).kind = "off"
              /\ Body(log[j].h).key = t}}

\* C20: off replaces the sequence, so a loop that is running goes on over
\* the array it started with: an emit whose handlers only return or call
\* off calls every handler the wildcard sequence held when the emit was
\* made, and every handler the sequence of the target held then except
\* those its wildcard handlers removed from it; so a handler removed from
\* the sequence of the target by a handler of that sequence is still
\* called if it had not run yet, and one removed by a wildcard handler is
\* not.  When the emit returns, the removed handler is in the sequence no
\* more, for the emits to come.
C20_OffDuringEmit ==
  (EmitReturnedThis /\ OffOnly(last.log) /\ last.key /= ANY) =>
    /\ AnyPart(last.log) = last.any0
    /\ StatePart(last.log) =
         SelectSeq(last.st0, LAMBDA x : x \notin Suppressed(last.log, last.key))
    /\ \A i \in 1..Len(last.log) :
         Body(last.log[i].h).kind = "off" =>
           Count(Body(last.log[i].h).h, transitions[Body(last.log[i].h).key]) = 0

\* An emit has returned whose target held a handler that calls off and,
\* after it, the handler that call removes: the second was still called,
\* and the sequence of the target now holds the first alone.
C20_Witness ==
  /\ EmitReturnedThis
  /\ last.key = Body("hOff").key
  /\ last.st0 = <<"hOff", Body("hOff").h>>
  /\ StatePart(last.log) = last.st0
  /\ transitions[last.key] = <<"hOff">>

====
